---- MODULE Spec2Model ----
(***************************************************************************)
(* Randomized-interval time series forest: sktime's BaseTimeSeriesForest   *)
(* (_tsf.py).  One forest object, the calls made on it (fit,               *)
(* _get_fitted_params, temporal_curves_), the joblib fan-out of the member *)
(* fits, and the interval sampler _get_intervals as a set-valued function  *)
(* of its arguments (one element per outcome of the random draws).         *)
(*                                                                         *)
(* Encodings.  Python indices are 0-based: a time index t is kept as in    *)
(* the code (0..L-1) and lives at position t+1 of a curve; member i of the *)
(* code is position i+1 of estimators_ / intervals_, interval j of a       *)
(* member is position j+1 of its interval set, feature f of a tree is      *)
(* position f+1 of feature_importances_.  An interval is <<start, end>>.   *)
(* Importances are small naturals standing for the tree's floats.          *)
(***************************************************************************)
EXTENDS Integers, Sequences, FiniteSets, TLC

VARIABLES
    \* constructor options (__init__, lines 47-50)
    random_state, n_estimators, min_interval, n_jobs,
    \* attributes set in fit (lines 52-60)
    n_classes, series_length, n_intervals, estimators_, intervals_, classes_,
    _is_fitted,
    \* temporal importance curves (lines 63-66)
    mean_curve_, stdev_curve_, slope_curve_, n_intervals_wts_curve_,
    \* the fit call in progress: position, joblib tasks and their results
    pc, frame,
    \* the public call in progress, or the last one that returned or raised
    call,
    \* history kept for the properties: option values at construction, call
    \* counters, the outputs the seeded generator has produced, the last
    \* seeded fit that returned
    hist,
    \* a stand-alone call of _get_intervals (SpecSampler)
    sampler,
    \* the time-budgeted member loop (SpecBudget)
    budget

options == <<random_state, n_estimators, n_jobs>>
curves == <<mean_curve_, stdev_curve_, slope_curve_, n_intervals_wts_curve_>>
fitted == <<n_classes, series_length, n_intervals, estimators_, intervals_,
            classes_, _is_fitted>>
vars == <<random_state, n_estimators, min_interval, n_jobs, n_classes,
          series_length, n_intervals, estimators_, intervals_, classes_,
          _is_fitted, mean_curve_, stdev_curve_, slope_curve_,
          n_intervals_wts_curve_, pc, frame, call, hist, sampler, budget>>

(***************************************************************************)
(* Bounds of the exploration.                                              *)
(***************************************************************************)
MaxLen == 5            \* longest series of a stand-alone _get_intervals call
MaxFits == 3           \* fit calls in one behaviour
MaxInspections == 1    \* _get_fitted_params / temporal_curves_ calls
MaxSamplerK == 2       \* n_intervals of a stand-alone _get_intervals call
MaxClock == 3          \* clock readings of a budgeted fit

\* Python's None, for a curve attribute and for random_state; no curve and
\* no seed is a sequence holding a negative number.
None == <<0 - 1>>

\* the options and inputs of the forest runs: series shorter than, as long
\* as and longer than min_interval, one and two intervals per member
SeriesLengths == {2, 3, 4}
MinIntervals == {2, 3}
EstimatorCounts == {1, 2}
NJobs == {0, 1, 2}
RandomStates == {None, <<7>>}
LabelVectors == {<<1, 0>>, <<1, 1>>}

Min(a, b) == IF a < b THEN a ELSE b

Range(s) == {s[i] : i \in DOMAIN s}

(***************************************************************************)
(* math.sqrt followed by int(): the integer square root.                   *)
(***************************************************************************)
isqrt(n) == CHOOSE r \in 0..n : r * r <= n /\ (r + 1) * (r + 1) > n

(***************************************************************************)
(* class_distribution(y)[0][0]: the distinct labels in increasing order.   *)
(***************************************************************************)
RECURSIVE SortedSeq(_)
SortedSeq(S) ==
    IF S = {} THEN <<>>
    ELSE LET m == CHOOSE x \in S : \A z \in S : x <= z
         IN  <<m>> \o SortedSeq(S \ {m})

class_distribution(y) == SortedSeq(Range(y))

(***************************************************************************)
(* rng.randint(high): a draw from [0, high); numpy raises ValueError when  *)
(* the range is empty, which is the empty set of outcomes here.            *)
(***************************************************************************)
randint(high) == IF high <= 0 THEN {} ELSE 0..(high - 1)

\* the outcome "ValueError raised" of one interval, and of a whole call
RaisedInterval == <<0 - 1, 0 - 1>>
ValueError == <<RaisedInterval>>

(***************************************************************************)
(* One pass of the loop body of _get_intervals (lines 210-214): the set of *)
(* its outcomes over the two draws.                                        *)
(***************************************************************************)
NoClamp(length, m) == length

ClampLength(length, m) == IF length < m THEN m ELSE length

\* as DrawInterval, with the start drawn over the whole series
DrawIntervalAnyStart(m, L) ==
    IF randint(L) = {}
    THEN {RaisedInterval}
    ELSE UNION {
           IF randint(L - start - 1) = {}
           THEN {RaisedInterval}
           ELSE { <<start, start + ClampLength(length, m)>> :
                    length \in randint(L - start - 1) }
           : start \in randint(L) }

DrawInterval(m, L) ==
    IF randint(L - m) = {}
    THEN {RaisedInterval}
    ELSE UNION {
           IF randint(L - start - 1) = {}
           THEN {RaisedInterval}
           ELSE { <<start, start + ClampLength(length, m)>> :
                    length \in randint(L - start - 1) }
           : start \in randint(L - m) }

(***************************************************************************)
(* _get_intervals(n_intervals, min_interval, series_length, rng): every    *)
(* array it can return, and ValueError when some draw can raise.           *)
(***************************************************************************)
_get_intervals(K, m, L) ==
    LET one == DrawInterval(m, L)
        good == one \ {RaisedInterval}
    IN  IF K = 0 THEN {<<>>}
        ELSE [1..K -> good]
             \cup (IF RaisedInterval \in one THEN {ValueError} ELSE {})

(***************************************************************************)
(* check_n_jobs(n_jobs) (sktime.utils.validation): the worker count, or a  *)
(* configuration error for a degree that is not valid.  0 stands for the   *)
(* invalid degrees.                                                        *)
(***************************************************************************)
check_n_jobs_raises(n) == n = 0

check_n_jobs(n) == n

(***************************************************************************)
(* check_random_state(random_state): None gives numpy's global generator,  *)
(* whose draws nothing in the program fixes; an int seed gives a fresh     *)
(* RandomState(seed), the same generator in the same state on every call.  *)
(***************************************************************************)
check_random_state(rs) ==
    IF rs = None THEN [seeded |-> FALSE] ELSE [seeded |-> TRUE]

(***************************************************************************)
(* The randint calls lines 115-118 make on rng, in call order, each as     *)
(* <<high, value>>: member by member, interval by interval, the start draw *)
(* of line 210 and then the length draw of line 211.  The value of a       *)
(* length draw is kept as lines 212-214 use it, after the clamp (end -     *)
(* start): nothing else reads the draw, and the ranges of the later calls  *)
(* depend on the starts only.                                              *)
(***************************************************************************)
Requests(sampled, K, m, L) ==
    [k \in 1..(2 * K * Len(sampled)) |->
        LET i == ((k - 1) \div (2 * K)) + 1
            j == (((k - 1) % (2 * K)) \div 2) + 1
            interval == sampled[i][j]
        IN  IF k % 2 = 1 THEN <<L - m, interval[1]>>
            ELSE <<L - interval[1] - 1, interval[2] - interval[1]>>]

(***************************************************************************)
(* RandomState(seed) is a deterministic generator: the value a randint     *)
(* call returns is a function of the seed and of the calls made on the     *)
(* generator since it was seeded.  run and old are the calls of two        *)
(* generators of one seed: where the calls before call k and the range of  *)
(* call k are the same in both, so is the value of call k.  Two samplings  *)
(* whose first start range and first length range agree have the same      *)
(* series_length and min_interval, hence clamp equal draws equally.        *)
(***************************************************************************)
SameGenerator(run, old) ==
    \A k \in 1..Min(Len(run), Len(old)) :
        ( /\ \A n \in 1..(k - 1) : run[n] = old[n]
          /\ run[k][1] = old[k][1] )
        => run[k][2] = old[k][2]

\* the call sequences rng can serve, stream being those RandomState(seed)
\* has served before; the global generator can serve any
GeneratorServes(rng, stream, run) ==
    rng.seeded => \A old \in stream : SameGenerator(run, old)

(***************************************************************************)
(* _transform(X, intervals): the feature matrix, kept as the interval set  *)
(* whose mean/std/slope columns it holds and its number of columns.        *)
(***************************************************************************)
_transform(intervals) ==
    [intervals |-> intervals, n_features |-> 3 * Len(intervals)]

\* feature_importances_ a fitted tree may report for n feature columns
ImportanceProfiles(n) ==
    { [f \in 1..n |-> f], [f \in 1..n |-> IF f = n THEN 1 ELSE 0] }

(***************************************************************************)
(* _fit_estimator(estimator, X, y, intervals): the tree fitted on the      *)
(* transformed panel; importances is what that tree reports.               *)
(***************************************************************************)
_fit_estimator(importances, intervals) ==
    [transformed_x |-> _transform(intervals),
     feature_importances_ |-> importances]

NoEstimator ==
    [transformed_x |-> [intervals |-> <<>>, n_features |-> 0],
     feature_importances_ |-> <<>>]

(***************************************************************************)
(* joblib's Parallel returns the results in the order of its input: the    *)
(* result of task i is entry i of the list, whenever task i finishes.      *)
(***************************************************************************)
StoreByCompletion(results, i, estimator) ==
    LET free == {k \in DOMAIN results : results[k] = NoEstimator}
        k == CHOOSE x \in free : \A z \in free : x <= z
    IN  [results EXCEPT ![k] = estimator]

StoreResult(results, i, estimator) == [results EXCEPT ![i] = estimator]

NoFrame == [status |-> <<>>, result |-> <<>>, mutated |-> FALSE, y |-> <<>>]

\* no seeded fit has returned yet
NoMemo ==
    [valid |-> FALSE, series_length |-> 0, y |-> <<>>, intervals |-> <<>>,
     classes |-> <<>>]

NoBefore == [intervals |-> <<>>, classes |-> <<>>]

NoCall == [op |-> "none", outcome |-> "none", series_length |-> 0,
           min_interval_used |-> 0]

IdleSampler == [status |-> "idle", n_intervals |-> 0, min_interval |-> 0,
                series_length |-> 0, intervals |-> <<>>]

IdleBudget ==
    [phase |-> "off", time_limit |-> 0, cap |-> 0, clock |-> 0,
     elapsed |-> 0, started |-> 0, status |-> <<>>, result |-> <<>>,
     issued_at |-> <<>>]

(***************************************************************************)
(* __init__ (lines 35-66).                                                 *)
(***************************************************************************)
Init ==
    /\ random_state \in RandomStates
    /\ n_estimators \in EstimatorCounts
    /\ min_interval \in MinIntervals
    /\ n_jobs \in NJobs
    /\ n_classes = 0
    /\ series_length = 0
    /\ n_intervals = 0
    /\ estimators_ = <<>>
    /\ intervals_ = <<>>
    /\ classes_ = <<>>
    /\ _is_fitted = FALSE
    /\ mean_curve_ = None
    /\ stdev_curve_ = None
    /\ slope_curve_ = None
    /\ n_intervals_wts_curve_ = None
    /\ pc = "idle"
    /\ frame = NoFrame
    /\ call = NoCall
    /\ hist = [min_interval0 |-> min_interval, fits |-> 0, inspections |-> 0,
               stream |-> {}, memo |-> NoMemo, repeat |-> FALSE,
               before |-> NoBefore]
    /\ sampler = IdleSampler
    /\ budget = IdleBudget

\* lines 109-111: int(math.sqrt(series_length)), 1 when that is 0
DefaultIntervals(L) == IF isqrt(L) = 0 THEN 1 ELSE isqrt(L)

\* lines 112-113: min_interval after the clamp to the series length
ClampedMinInterval(mi, L) == IF L < mi THEN L ELSE mi

\* the attributes a fit is said to leave alone when it fails
FitState == <<series_length, n_intervals, min_interval, classes_, intervals_,
              estimators_>>

(***************************************************************************)
(* _fit, lines 99-118 and the start of the Parallel call: everything the   *)
(* calling thread does before the first member fit is dispatched.          *)
(***************************************************************************)
FitConfigError(L, y) ==
    /\ pc = "idle"
    /\ hist.fits < MaxFits /\ hist.inspections = 0
    /\ check_n_jobs_raises(n_jobs)
    /\ series_length' = L
    /\ call' = [op |-> "fit", outcome |-> "ConfigurationError",
                series_length |-> L, min_interval_used |-> 0]
    /\ hist' = [hist EXCEPT !.fits = @ + 1, !.repeat = FALSE,
                             !.before = NoBefore]
    /\ UNCHANGED <<options, min_interval, n_classes, n_intervals, estimators_,
                   intervals_, classes_, _is_fitted, curves, pc, frame,
                   sampler, budget>>

FitSamplingError(L, y) ==
    LET K == DefaultIntervals(L)
        m == ClampedMinInterval(min_interval, L)
    IN  /\ pc = "idle"
        /\ hist.fits < MaxFits /\ hist.inspections = 0
        /\ ~check_n_jobs_raises(n_jobs)
        /\ ValueError \in _get_intervals(K, m, L)
        /\ series_length' = L
        /\ n_classes' = Cardinality(Range(y))
        /\ classes_' = class_distribution(y)
        /\ n_intervals' = K
        /\ min_interval' = m
        /\ call' = [op |-> "fit", outcome |-> "ValueError",
                    series_length |-> L, min_interval_used |-> m]
        /\ hist' = [hist EXCEPT !.fits = @ + 1, !.repeat = FALSE,
                                 !.before = NoBefore]
        /\ UNCHANGED <<options, estimators_, intervals_, _is_fitted, curves,
                       pc, frame, sampler, budget>>

FitSample(L, y) ==
    LET K == DefaultIntervals(L)
        m == ClampedMinInterval(min_interval, L)
        rng == check_random_state(random_state)
        repeat == /\ rng.seeded
                  /\ hist.memo.valid
                  /\ hist.memo.series_length = L
                  /\ hist.memo.y = y
    IN  /\ pc = "idle"
        /\ hist.fits < MaxFits /\ hist.inspections = 0
        /\ ~check_n_jobs_raises(n_jobs)
        /\ \E sampled \in [1..n_estimators ->
                              _get_intervals(K, m, L) \ {ValueError}] :
              LET run == Requests(sampled, K, m, L)
              IN  /\ GeneratorServes(rng, hist.stream, run)
                  /\ intervals_' = sampled
                  /\ hist' = [hist EXCEPT
                        !.fits = @ + 1,
                        !.stream = IF rng.seeded THEN @ \cup {run} ELSE @,
                        !.repeat = repeat,
                        !.before = IF repeat
                                   THEN [intervals |-> hist.memo.intervals,
                                         classes |-> hist.memo.classes]
                                   ELSE NoBefore]
        /\ series_length' = L
        /\ n_classes' = Cardinality(Range(y))
        /\ classes_' = class_distribution(y)
        /\ n_intervals' = K
        /\ min_interval' = m
        /\ pc' = "parallel"
        /\ UNCHANGED <<options, estimators_, _is_fitted, curves, sampler,
                       budget>>
        /\ frame' = [status |-> [i \in 1..n_estimators |-> "pending"],
                     result |-> [i \in 1..n_estimators |-> NoEstimator],
                     mutated |-> FitState' # FitState,
                     y |-> y]
        /\ call' = [op |-> "fit", outcome |-> "running",
                    series_length |-> L, min_interval_used |-> m]

(***************************************************************************)
(* The Parallel call of lines 120-125.  joblib hands the tasks to its      *)
(* workers in input order, at most check_n_jobs(n_jobs) at a time; task i  *)
(* is _fit_estimator on intervals_[i].  The workers finish in any order.   *)
(***************************************************************************)
Running == {i \in DOMAIN frame.status : frame.status[i] = "running"}

Dispatch(i) ==
    /\ pc = "parallel"
    /\ frame.status[i] = "pending"
    /\ \A k \in 1..(i - 1) : frame.status[k] # "pending"
    /\ Cardinality(Running) < check_n_jobs(n_jobs)
    /\ frame' = [frame EXCEPT !.status[i] = "running"]
    /\ UNCHANGED <<options, min_interval, fitted, curves, pc, call, hist,
                   sampler, budget>>

WorkerReturns(i) ==
    /\ pc = "parallel"
    /\ frame.status[i] = "running"
    /\ \E importances \in ImportanceProfiles(3 * Len(intervals_[i])) :
          frame' = [frame EXCEPT
              !.status[i] = "done",
              !.result = StoreResult(@, i,
                             _fit_estimator(importances, intervals_[i]))]
    /\ UNCHANGED <<options, min_interval, fitted, curves, pc, call, hist,
                   sampler, budget>>

\* estimator.fit raises inside a worker: Parallel re-raises it in the caller
\* and line 120 assigns nothing
WorkerRaises(i) ==
    /\ pc = "parallel"
    /\ frame.status[i] = "running"
    /\ pc' = "idle"
    /\ frame' = NoFrame
    /\ call' = [call EXCEPT !.outcome = "WorkerFitError"]
    /\ UNCHANGED <<options, min_interval, fitted, curves, hist, sampler,
                   budget>>

\* lines 120 (the assignment), 127, 128
FitReturns ==
    /\ pc = "parallel"
    /\ \A i \in DOMAIN frame.status : frame.status[i] = "done"
    /\ estimators_' = frame.result
    /\ _is_fitted' = TRUE
    /\ pc' = "idle"
    /\ frame' = NoFrame
    /\ call' = [call EXCEPT !.outcome = "returned"]
    /\ hist' = [hist EXCEPT
          !.memo = IF check_random_state(random_state).seeded
                   THEN [valid |-> TRUE, series_length |-> series_length,
                         y |-> frame.y, intervals |-> intervals_,
                         classes |-> classes_]
                   ELSE @]
    /\ UNCHANGED <<options, min_interval, n_classes, series_length,
                   n_intervals, intervals_, classes_, curves, sampler,
                   budget>>

(***************************************************************************)
(* _get_fitted_params (lines 130-135): returns the three attributes.       *)
(***************************************************************************)
GetFittedParams ==
    /\ pc = "idle"
    /\ hist.inspections < MaxInspections
    /\ call' = [op |-> "_get_fitted_params", outcome |-> "returned",
                series_length |-> series_length, min_interval_used |-> 0]
    /\ hist' = [hist EXCEPT !.inspections = @ + 1]
    /\ UNCHANGED <<options, min_interval, fitted, curves, pc, frame, sampler,
                   budget>>

(***************************************************************************)
(* temporal_curves_ (lines 137-171).                                       *)
(***************************************************************************)
zeros(n) == [t \in 1..n |-> 0]

\* np.put(interval_mask, range(start, end), 1) raises IndexError on an index
\* outside the mask
PutRaises(interval, L) == \E t \in interval[1]..(interval[2] - 1) : t >= L

\* curve += np.where(interval_mask, weight, 0)
AddWhere(curve, interval, weight) ==
    [t \in DOMAIN curve |->
        IF interval[1] <= t - 1 /\ t - 1 < interval[2]
        THEN curve[t] + weight ELSE curve[t]]

\* the (member, interval) pairs in the order the two loops visit them
RECURSIVE LoopPairs(_, _, _)
LoopPairs(estimators, intervals, i) ==
    IF i > Min(Len(estimators), Len(intervals)) THEN <<>>
    ELSE [j \in 1..Len(intervals[i]) |-> <<i, j>>]
         \o LoopPairs(estimators, intervals, i + 1)

\* the loop body (lines 159-171) for each pair in turn, until one raises
RECURSIVE Accumulate(_, _, _, _, _)
Accumulate(acc, pairs, estimators, intervals, L) ==
    IF pairs = <<>> \/ acc.raised THEN acc
    ELSE LET i == Head(pairs)[1]
             j == Head(pairs)[2]
             interval == intervals[i][j]
             fi == estimators[i].feature_importances_
             next ==
               IF PutRaises(interval, L) THEN [acc EXCEPT !.raised = TRUE]
               ELSE IF 3 * (j - 1) >= Len(fi)
               THEN [acc EXCEPT
                       !.wts = AddWhere(@, interval, 1), !.raised = TRUE]
               ELSE [wts |-> AddWhere(acc.wts, interval, 1),
                     mean |-> AddWhere(acc.mean, interval, fi[3 * (j - 1) + 1]),
                     stdev |-> AddWhere(acc.stdev, interval, fi[3 * (j - 1) + 2]),
                     slope |-> AddWhere(acc.slope, interval, fi[3 * (j - 1) + 3]),
                     raised |-> FALSE]
         IN  Accumulate(next, Tail(pairs), estimators, intervals, L)

ComputeCurves(estimators, intervals, L) ==
    Accumulate([wts |-> zeros(L), mean |-> zeros(L), stdev |-> zeros(L),
                slope |-> zeros(L), raised |-> FALSE],
               LoopPairs(estimators, intervals, 1), estimators, intervals, L)

TemporalCurves ==
    LET c == ComputeCurves(estimators_, intervals_, series_length)
    IN  /\ pc = "idle"
        /\ hist.inspections < MaxInspections
        /\ mean_curve_' = c.mean
        /\ stdev_curve_' = c.stdev
        /\ slope_curve_' = c.slope
        /\ n_intervals_wts_curve_' = c.wts
        /\ call' = [op |-> "temporal_curves_",
                    outcome |-> IF c.raised THEN "IndexError" ELSE "returned",
                    series_length |-> series_length, min_interval_used |-> 0]
        /\ hist' = [hist EXCEPT !.inspections = @ + 1]
        /\ UNCHANGED <<options, min_interval, fitted, pc, frame, sampler,
                       budget>>

Next ==
    \/ \E L \in SeriesLengths, y \in LabelVectors : FitConfigError(L, y)
    \/ \E L \in SeriesLengths, y \in LabelVectors : FitSamplingError(L, y)
    \/ \E L \in SeriesLengths, y \in LabelVectors : FitSample(L, y)
    \/ \E i \in 1..n_estimators : Dispatch(i)
    \/ \E i \in 1..n_estimators : WorkerReturns(i)
    \/ \E i \in 1..n_estimators : WorkerRaises(i)
    \/ FitReturns
    \/ GetFittedParams
    \/ TemporalCurves

Spec == Init /\ [][Next]_vars

(***************************************************************************)
(* A stand-alone call of _get_intervals: arguments from the bounded sets,  *)
(* one step per outcome of the draws.                                      *)
(***************************************************************************)
SamplerCall ==
    /\ sampler.status = "idle"
    /\ \E K \in 1..MaxSamplerK, m \in 0..MaxLen, L \in 1..MaxLen :
       \E out \in _get_intervals(K, m, L) :
          sampler' = [status |-> IF out = ValueError THEN "raised"
                                 ELSE "returned",
                      n_intervals |-> K, min_interval |-> m,
                      series_length |-> L,
                      intervals |-> IF out = ValueError THEN <<>> ELSE out]
    /\ UNCHANGED <<options, min_interval, fitted, curves, pc, frame, call,
                   hist, budget>>

SamplerDone ==
    /\ sampler.status # "idle"
    /\ sampler' = IdleSampler
    /\ UNCHANGED <<options, min_interval, fitted, curves, pc, frame, call,
                   hist, budget>>

NextSampler == SamplerCall \/ SamplerDone

SpecSampler == Init /\ [][NextSampler]_vars

(***************************************************************************)
(* Fit under a wall-clock budget (time limit and member cap): the member   *)
(* loop of the contracted forests.  The interval sets of the planned       *)
(* members are drawn first, as in _fit; members are then issued in order   *)
(* while the elapsed time read by the loop is within the limit and fewer   *)
(* members than the cap were issued; the loop reads the clock when a       *)
(* member fit completes; the fit returns when nothing more may be issued   *)
(* and nothing is in flight.                                               *)
(***************************************************************************)
TimeLimits == {1, 2}
MemberCaps == {1, 2, 3}

IssueIgnoringCap(b, planned) ==
    /\ b.elapsed <= b.time_limit
    /\ b.started < planned

MayIssue(b, planned) ==
    /\ b.elapsed <= b.time_limit
    /\ b.started < b.cap
    /\ b.started < planned

BudgetRunning == {i \in DOMAIN budget.status : budget.status[i] = "running"}

BudgetFitBegin(L, y, limit, cap) ==
    LET K == DefaultIntervals(L)
        m == ClampedMinInterval(min_interval, L)
        sets == _get_intervals(K, m, L) \ {ValueError}
    IN  /\ pc = "idle"
        /\ budget.phase = "off"
        /\ ~check_n_jobs_raises(n_jobs)
        /\ \E sampled \in [1..n_estimators -> sets] : intervals_' = sampled
        /\ series_length' = L
        /\ n_classes' = Cardinality(Range(y))
        /\ classes_' = class_distribution(y)
        /\ n_intervals' = K
        /\ min_interval' = m
        /\ pc' = "budget"
        /\ budget' = [phase |-> "loop", time_limit |-> limit, cap |-> cap,
                      clock |-> 0, elapsed |-> 0, started |-> 0,
                      status |-> [i \in 1..n_estimators |-> "pending"],
                      result |-> [i \in 1..n_estimators |-> NoEstimator],
                      issued_at |-> <<>>]
        /\ UNCHANGED <<options, estimators_, _is_fitted, curves, frame, call,
                       hist, sampler>>

\* wall-clock time passes while the fit runs
BudgetTick ==
    /\ budget.phase = "loop"
    /\ budget.clock < MaxClock
    /\ budget' = [budget EXCEPT !.clock = @ + 1]
    /\ UNCHANGED <<options, min_interval, fitted, curves, pc, frame, call,
                   hist, sampler>>

BudgetIssue ==
    LET i == budget.started + 1
    IN  /\ budget.phase = "loop"
        /\ MayIssue(budget, n_estimators)
        /\ Cardinality(BudgetRunning) < check_n_jobs(n_jobs)
        /\ budget' = [budget EXCEPT
              !.started = i,
              !.status[i] = "running",
              !.issued_at = Append(@, budget.elapsed)]
        /\ UNCHANGED <<options, min_interval, fitted, curves, pc, frame, call,
                       hist, sampler>>

BudgetWorkerReturns(i) ==
    /\ budget.phase = "loop"
    /\ budget.status[i] = "running"
    /\ \E importances \in ImportanceProfiles(3 * n_intervals) :
          budget' = [budget EXCEPT
              !.status[i] = "done",
              !.elapsed = budget.clock,
              !.result = StoreResult(@, i,
                  _fit_estimator(importances, intervals_[i]))]
    /\ UNCHANGED <<options, min_interval, fitted, curves, pc, frame, call,
                   hist, sampler>>

BudgetWorkerRaises(i) ==
    /\ budget.phase = "loop"
    /\ budget.status[i] = "running"
    /\ budget' = [budget EXCEPT !.phase = "failed"]
    /\ pc' = "idle"
    /\ UNCHANGED <<options, min_interval, fitted, curves, frame, call, hist,
                   sampler>>

BudgetFitReturns ==
    /\ budget.phase = "loop"
    /\ ~MayIssue(budget, n_estimators)
    /\ BudgetRunning = {}
    /\ estimators_' = SubSeq(budget.result, 1, budget.started)
    /\ intervals_' = SubSeq(intervals_, 1, budget.started)
    /\ _is_fitted' = TRUE
    /\ budget' = [budget EXCEPT !.phase = "done"]
    /\ pc' = "idle"
    /\ UNCHANGED <<options, min_interval, n_classes, series_length,
                   n_intervals, classes_, curves, frame, call, hist, sampler>>

NextBudget ==
    \/ \E L \in SeriesLengths, y \in LabelVectors, limit \in TimeLimits,
          cap \in MemberCaps : BudgetFitBegin(L, y, limit, cap)
    \/ BudgetTick
    \/ BudgetIssue
    \/ \E i \in 1..n_estimators : BudgetWorkerReturns(i)
    \/ \E i \in 1..n_estimators : BudgetWorkerRaises(i)
    \/ BudgetFitReturns

SpecBudget == Init /\ [][NextBudget]_vars

(***************************************************************************)
(* Properties.                                                             *)
(***************************************************************************)
SamplerInDomain ==
    /\ sampler.status = "returned"
    /\ 1 <= sampler.min_interval
    /\ sampler.min_interval < sampler.series_length

\* C1: every interval _get_intervals returns for 1 <= m < L lies inside the
\* series: 0 <= start and end <= L.
C1_IntervalsInsideSeries ==
    SamplerInDomain =>
        \A j \in DOMAIN sampler.intervals :
            /\ 0 <= sampler.intervals[j][1]
            /\ sampler.intervals[j][2] <= sampler.series_length

\* a call with two intervals, one starting at 0 and one ending as late as the
\* sampler lets an interval end
C1_Witness ==
    /\ SamplerInDomain
    /\ sampler.n_intervals = 2
    /\ sampler.intervals[1][1] = 0
    /\ sampler.intervals[2][2] = sampler.series_length - 1

\* C2: every interval _get_intervals returns for 1 <= m < L has start < end
\* and is at least m long.
C2_IntervalsAtLeastMinLength ==
    SamplerInDomain =>
        \A j \in DOMAIN sampler.intervals :
            /\ sampler.intervals[j][1] < sampler.intervals[j][2]
            /\ sampler.intervals[j][2] - sampler.intervals[j][1]
                   >= sampler.min_interval

\* a call that returned one interval of exactly the minimum length (the clamp)
\* and one longer than it (the drawn length kept)
C2_Witness ==
    /\ SamplerInDomain
    /\ sampler.n_intervals = 2
    /\ sampler.intervals[1][2] - sampler.intervals[1][1] = sampler.min_interval
    /\ sampler.intervals[2][2] - sampler.intervals[2][1] > sampler.min_interval

FitRaised ==
    call.op = "fit"
    /\ call.outcome \in {"ConfigurationError", "ValueError", "WorkerFitError"}

\* C3: a fit call that fails leaves series_length, n_intervals, min_interval,
\* classes_, intervals_ and estimators_ as they were when it was called, and
\* the forest not marked fitted.
C3_FailedFitLeavesForestUnchanged ==
    [][ (FitRaised' /\ (hist'.fits # hist.fits \/ pc = "parallel"))
        => /\ FitState' = FitState
           /\ (pc = "parallel" => ~frame.mutated)
           /\ ~_is_fitted' ]_vars

\* C4: on a forest no fit has succeeded on, _get_fitted_params and
\* temporal_curves_ raise the not-fitted error and change no attribute.
C4_InspectionGuardedBeforeFit ==
    [][ (hist'.inspections # hist.inspections /\ ~_is_fitted)
        => /\ call'.outcome = "NotFittedError"
           /\ UNCHANGED <<fitted, curves, min_interval>> ]_vars

\* C5: after a successful fit estimators_ and intervals_ hold one entry per
\* member, every interval set has max(1, floor(sqrt(L))) intervals, and the
\* tree at position i was fitted on the features of intervals_[i].
C5_MembersInMemberOrder ==
    (call.op = "fit" /\ call.outcome = "returned") =>
        /\ Len(estimators_) = n_estimators
        /\ Len(intervals_) = n_estimators
        /\ \A i \in 1..n_estimators :
              /\ Len(intervals_[i]) =
                     (IF isqrt(series_length) > 1 THEN isqrt(series_length)
                      ELSE 1)
              /\ estimators_[i].transformed_x.intervals = intervals_[i]
              /\ estimators_[i].transformed_x.n_features
                     = 3 * Len(intervals_[i])

\* a fit with two workers returned members whose interval sets differ
C5_Witness ==
    /\ call.op = "fit" /\ call.outcome = "returned"
    /\ n_jobs = 2
    /\ n_estimators = 2
    /\ Len(intervals_[1]) = 2
    /\ intervals_[1] # intervals_[2]

\* C6: a fit of a seeded forest that returned, given the same panel and the
\* same labels as the fit of that forest that returned before it, has the
\* same intervals_ and the same classes_ as that fit had.
C6_SeededFitsRepeat ==
    (hist.repeat /\ call.op = "fit" /\ call.outcome = "returned") =>
        /\ intervals_ = hist.before.intervals
        /\ classes_ = hist.before.classes

\* C7: under a time budget no member fit is issued once the elapsed time
\* read by the loop exceeds the limit or the cap is reached, the fit returns
\* only when the issued members have completed, and it leaves the forest
\* fitted with at least 1 and at most n_estimators members.
C7_BudgetedFit ==
    /\ \A i \in DOMAIN budget.issued_at :
          budget.issued_at[i] <= budget.time_limit
    /\ budget.phase # "off" => budget.started <= budget.cap
    /\ budget.phase = "done" =>
          /\ _is_fitted
          /\ Len(estimators_) >= 1
          /\ Len(estimators_) <= n_estimators
          /\ Len(estimators_) = budget.started
          /\ \A i \in 1..budget.started :
                /\ budget.status[i] = "done"
                /\ estimators_[i] # NoEstimator

\* a budgeted fit that ran out of time with fewer members than requested and
\* than the cap allows
C7_Witness ==
    /\ budget.phase = "done"
    /\ budget.elapsed > budget.time_limit
    /\ Len(estimators_) = 1
    /\ n_estimators = 2
    /\ budget.cap >= 2

\* the (member, interval) pairs whose interval holds time index t
Covering(t) ==
    { p \in UNION { { <<i, j>> : j \in DOMAIN intervals_[i] } :
                    i \in 1..Min(Len(estimators_), Len(intervals_)) } :
        /\ intervals_[p[1]][p[2]][1] <= t
        /\ t < intervals_[p[1]][p[2]][2] }

RECURSIVE SumImportances(_, _)
SumImportances(pairs, offset) ==
    IF pairs = {} THEN 0
    ELSE LET p == CHOOSE x \in pairs : TRUE
             fi == estimators_[p[1]].feature_importances_
             f == 3 * (p[2] - 1) + offset + 1
         IN  (IF f <= Len(fi) THEN fi[f] ELSE 0)
             + SumImportances(pairs \ {p}, offset)

\* C8: temporal_curves_ on a fitted forest completes and yields four curves
\* of length series_length: at every time index the coverage is the number
\* of (member, interval) pairs holding it and the mean, stdev and slope
\* curves are the sums of those pairs' importances at offsets 3j, 3j+1, 3j+2.
C8_CurvesOnFittedForest ==
    (call.op = "temporal_curves_" /\ _is_fitted) =>
        /\ call.outcome = "returned"
        /\ Len(n_intervals_wts_curve_) = series_length
        /\ Len(mean_curve_) = series_length
        /\ Len(stdev_curve_) = series_length
        /\ Len(slope_curve_) = series_length
        /\ \A t \in 0..(series_length - 1) :
              /\ n_intervals_wts_curve_[t + 1] = Cardinality(Covering(t))
              /\ mean_curve_[t + 1] = SumImportances(Covering(t), 0)
              /\ stdev_curve_[t + 1] = SumImportances(Covering(t), 1)
              /\ slope_curve_[t + 1] = SumImportances(Covering(t), 2)

\* C9: a fit on series of length L >= 2 with a configured min_interval >= 1
\* never fails in the interval sampling.
C9_SamplingNeverRaises ==
    ~ ( /\ call.op = "fit"
        /\ call.outcome = "ValueError"
        /\ call.series_length >= 2
        /\ hist.min_interval0 >= 1 )

\* C10: fit leaves the min_interval option as constructed, and every fit
\* samples with min(min_interval as constructed, series length of its panel).
C10_MinIntervalAsConstructed ==
    /\ min_interval = hist.min_interval0
    /\ (call.op = "fit" /\ call.min_interval_used # 0) =>
          call.min_interval_used
              = Min(hist.min_interval0, call.series_length)

====
